---- MODULE Spec2Model ----
(***************************************************************************)
(* Model of src/models/lstm.py: the windowed dataset adapter               *)
(* SequenceDfDataSet (length, iloc, item access over a shared table), the  *)
(* loss slicing of LSTM_PL.training_step / validation_step / test_step,    *)
(* LSTM_PL.validation_end and plot_from_loader.                            *)
(*                                                                         *)
(* Four specifications share the module:                                   *)
(*   Spec         one caller (in-process loading) calling len / iloc /     *)
(*                item on a table, over every bounded label column         *)
(*   SpecWorkers  several loader workers calling into one shared table     *)
(*   SpecStep     the training controller's per-batch steps                *)
(*   SpecVal      the validation loop: collected outputs, validation_end,  *)
(*                test_end, plot_from_loader                               *)
(***************************************************************************)
EXTENDS Integers, Sequences, FiniteSets, TLC

VARIABLES
    data,       \* SequenceDfDataSet.data: the shared source table (rows)
    hparams,    \* the hyperparameter mapping (window_length, target_length, vis_i)
    res,        \* per loader worker: the outcome of its latest dataset call
    batch,      \* the batch handed to a step: targets y and the forward pass's y_hat
    last_step,  \* outcome of the latest training/validation/test step
    outputs,    \* validation outputs collected by the trainer for validation_end
    val_end,    \* outcome of the latest validation_end / test_end
    plot        \* outcome of the latest plot_from_loader call

vars == <<data, hparams, res, batch, last_step, outputs, val_end, plot>>

-----------------------------------------------------------------------------
(* Bounds of the model *)

MaxRows == 5
MaxWindow == 2
MaxTarget == 2
MaxT == 5
MaxStepWindow == 3
MaxOutputs == 2
MaxPlotN == 2

(* Program constants *)

SecondsPerDay == 86400
HalfHourSecs == 1800
DefaultVisI == 670

Workers == {"w1", "w2"}

LabelValues == {0, 1}

-----------------------------------------------------------------------------
(* Python / pandas primitives *)

Min(a, b) == IF a <= b THEN a ELSE b

Max(a, b) == IF a >= b THEN a ELSE b

\* Python's normalisation of one slice bound against a length n
\* (negative bounds count from the end, everything is clamped to 0..n).
PyBound(a, n) == IF a < 0 THEN Max(a + n, 0) ELSE Min(a, n)

\* seq[a:b]: 0-based, half-open, silently clamped to the sequence.
PySlice(seq, a, b) ==
    LET lo == PyBound(a, Len(seq))
        hi == PyBound(b, Len(seq))
    IN  IF hi <= lo THEN <<>> ELSE SubSeq(seq, lo + 1, hi)

\* seq[a:]
PySliceFrom(seq, a) == PySlice(seq, a, Len(seq))

\* 0-based position in the parent at which the slice seq[a:b] starts.
PySliceStart(seq, a) == PyBound(a, Len(seq))

\* A timestamp cell: absolute (datetime, in seconds) in the table, and
\* elapsed fractional days (num / den) after the per-sample rewrite.
Datetime(secs) == [unit |-> "datetime", num |-> secs, den |-> 1]

\* (a - b).dt.total_seconds() / 86400.0
ElapsedDays(a, b) == [unit |-> "days", num |-> a.num - b.num, den |-> SecondsPerDay]

\* One table row: its index label, the tstp column and the label column
\* "energy(kWh/hh)".
Row(r, label) ==
    [index |-> r * HalfHourSecs, tstp |-> Datetime(r * HalfHourSecs), energy |-> label]

\* A table built from its label column; rows are half-hourly, so the index
\* is strictly increasing.
Table(labels) == [r \in 1..Len(labels) |-> Row(r - 1, labels[r])]

\* Label columns 10, 20, 30, ... (every row distinct and non-zero).
Ramp(n) == [r \in 1..n |-> 10 * r]

RECURSIVE SeqsOfLen(_, _)
SeqsOfLen(S, n) ==
    IF n = 0 THEN {<<>>}
    ELSE {Append(s, v) : s \in SeqsOfLen(S, n - 1), v \in S}

LabelColumns ==
    UNION {SeqsOfLen(LabelValues, n) : n \in 0..MaxRows}
        \cup {Ramp(n) : n \in 0..MaxRows}

-----------------------------------------------------------------------------
(* Data frames.  df.iloc[a:b] is a window onto its parent (view = TRUE,    *)
(* off = position of its first row in the parent); df.copy() owns its      *)
(* rows.  A write to a frame that is a view writes through to the table.   *)

ILoc(rows, a, b) ==
    [rows |-> PySlice(rows, a, b), off |-> PySliceStart(rows, a), view |-> TRUE]

DfCopy_View(f) == f

DfCopy(f) == [f EXCEPT !.view = FALSE]

\* x_rows.index[w:]: the index labels of the rows from local offset w on.
HorizonIndex_OffByOne(x, w) ==
    LET tail == PySliceFrom(x.rows, w + 1)
    IN  [p \in 1..Len(tail) |-> tail[p].index]

HorizonIndex(x, w) ==
    LET tail == PySliceFrom(x.rows, w)
    IN  [p \in 1..Len(tail) |-> tail[p].index]

IndexSet(ix) == {ix[p] : p \in 1..Len(ix)}

\* x_rows.loc[ix, label_names]: the label cells of the rows labelled by ix.
LocLabels(x, ix) ==
    LET hit == {p \in 1..Len(x.rows) : x.rows[p].index \in IndexSet(ix)}
    IN  [p \in hit |-> x.rows[p].energy]

\* x_rows.loc[ix, label_names] = v, in the memory mem = [data, x].
LocSetLabels_None(mem, ix, v) == mem

LocSetLabels(mem, ix, v) ==
    LET x == mem.x
        hit(p) == p \in 1..Len(x.rows) /\ x.rows[p].index \in IndexSet(ix)
        newrows == [p \in 1..Len(x.rows) |->
                      IF hit(p) THEN [x.rows[p] EXCEPT !.energy = v] ELSE x.rows[p]]
        newdata == IF x.view
                   THEN [r \in 1..Len(mem.data) |->
                           IF hit(r - x.off) THEN [mem.data[r] EXCEPT !.energy = v]
                           ELSE mem.data[r]]
                   ELSE mem.data
    IN  [data |-> newdata, x |-> [x EXCEPT !.rows = newrows]]

\* x_rows["tstp"] = (x_rows["tstp"] - x_rows["tstp"].iloc[0]).dt.total_seconds() / 86400.0
\* (only called on a non-empty frame).
RewriteTstp(mem) ==
    LET x == mem.x
        t0 == x.rows[1].tstp
        newrows == [p \in 1..Len(x.rows) |->
                      [x.rows[p] EXCEPT !.tstp = ElapsedDays(x.rows[p].tstp, t0)]]
        newdata == IF x.view
                   THEN [r \in 1..Len(mem.data) |->
                           IF r - x.off \in 1..Len(x.rows)
                           THEN [mem.data[r] EXCEPT
                                   !.tstp = ElapsedDays(x.rows[r - x.off].tstp, t0)]
                           ELSE mem.data[r]]
                   ELSE mem.data
    IN  [data |-> newdata, x |-> [x EXCEPT !.rows = newrows]]

\* self.data[self.label_names]: the label columns of the table.
LabelFrame(rows) ==
    [r \in 1..Len(rows) |-> [index |-> rows[r].index, energy |-> rows[r].energy]]

-----------------------------------------------------------------------------
(* SequenceDfDataSet *)

\* __len__
SequenceDfDataSet_len_NoTarget(d, hp) == Len(d) - hp.window_length - 1

SequenceDfDataSet_len(d, hp) ==
    Len(d) - hp.window_length - hp.target_length - 1

Raised(d, status) == [status |-> status, data |-> d, x_rows |-> <<>>, y_rows |-> <<>>]

\* y_rows = self.data[self.label_names].iloc[i+1:k+1].copy()
YRows_NoShift(d, i, k) == DfCopy(ILoc(LabelFrame(d), i, k)).rows

YRows(d, i, k) == DfCopy(ILoc(LabelFrame(d), i + 1, k + 1)).rows

\* The one element of a singleton set.  {F(v) : v \in {e}} evaluates e once
\* and binds its value in F, which keeps the evaluation of chained calls
\* linear.
Only(S) == CHOOSE v \in S : TRUE

\* Lines 49-59 of iloc, on the memory m1 left by the masking of line 48.
IlocAfterMask(m1, hp, i, k) ==
    LET hz == LocLabels(m1.x, HorizonIndex(m1.x, hp.window_length))
    IN  IF ~(Cardinality(DOMAIN hz) > 0) THEN Raised(m1.data, "AssertionError:49")
        ELSE IF ~(\A p \in DOMAIN hz : hz[p] = 0)
             THEN Raised(m1.data, "AssertionError:50")
        ELSE IF Len(m1.x.rows) = 0 THEN Raised(m1.data, "IndexError:57")
        ELSE Only({[status |-> "ok", data |-> m2.data, x_rows |-> m2.x.rows,
                    y_rows |-> YRows(m1.data, i, k)] : m2 \in {RewriteTstp(m1)}})

\* iloc(idx): the outcome (status ok or the exception raised), the rows
\* returned, and the table as the call leaves it.
SequenceDfDataSet_iloc(d, hp, idx) ==
    LET k == idx + hp.window_length + hp.target_length
        j == k - hp.target_length
        i == j - hp.window_length
    IN  IF ~(i >= 0) THEN Raised(d, "AssertionError:42")
        ELSE IF ~(idx <= Len(d)) THEN Raised(d, "AssertionError:43")
        ELSE Only({IlocAfterMask(m1, hp, i, k) :
                     m1 \in {LocSetLabels(m0, HorizonIndex(m0.x, hp.window_length), 0) :
                               m0 \in {[data |-> d, x |-> DfCopy(ILoc(d, i, k))]}}})

\* Lines 64-69 of __getitem__ on iloc's outcome r: x_rows as a (T, columns)
\* array, y_rows' label column as a flat per-timestep sequence (ToTensor
\* adds a leading axis that squeeze(0) removes; squeeze(-1) drops the
\* single label column).
ItemOf(r) ==
    IF r.status # "ok" THEN [status |-> r.status, data |-> r.data, x |-> <<>>, y |-> <<>>]
    ELSE [status |-> "ok", data |-> r.data,
          x |-> [p \in 1..Len(r.x_rows) |-> <<r.x_rows[p].tstp, r.x_rows[p].energy>>],
          y |-> [p \in 1..Len(r.y_rows) |-> r.y_rows[p].energy]]

\* __getitem__(idx)
SequenceDfDataSet_getitem(d, hp, idx) ==
    Only({ItemOf(r) : r \in {SequenceDfDataSet_iloc(d, hp, idx)}})

-----------------------------------------------------------------------------
(* Loader workers *)

Idle == [op |-> "idle", idx |-> 0, status |-> "none", len |-> 0,
         x_rows |-> <<>>, y_rows |-> <<>>, x |-> <<>>, y |-> <<>>]

NoBatch == [y |-> <<>>, y_hat |-> <<>>]

NoStep == [kind |-> "none", key |-> "none", loss |-> [kind |-> "finite", num |-> 0, den |-> 1]]

NoValEnd == [status |-> "none", by |-> "none", plotted |-> FALSE,
             avg |-> [kind |-> "finite", num |-> 0, den |-> 1]]

NoPlot == [status |-> "none", vis_i |-> 0, n |-> 0, indices |-> <<>>]

NoVis == [isstr |-> FALSE, val |-> 0]

\* The dataset as constructed over a table (lines 27-33), nothing called yet.
InitDataset(columns) ==
    /\ \E labels \in columns : data = Table(labels)
    /\ \E w \in 0..MaxWindow, t \in 0..MaxTarget :
          hparams = [window_length |-> w, target_length |-> t, vis_i |-> NoVis]
    /\ res = [wk \in Workers |-> Idle]
    /\ batch = NoBatch
    /\ last_step = NoStep
    /\ outputs = <<>>
    /\ val_end = NoValEnd
    /\ plot = NoPlot

IdxRange == -1..(Len(data) + 1)

\* A caller reads the dataset's length.
CallLen(wk) ==
    /\ res' = [res EXCEPT ![wk] =
                 [Idle EXCEPT !.op = "len", !.status = "ok",
                              !.len = SequenceDfDataSet_len(data, hparams)]]
    /\ UNCHANGED <<data, hparams, batch, last_step, outputs, val_end, plot>>

\* dataset.iloc(idx)
CallIloc(wk) ==
    \E idx \in IdxRange :
        LET r == SequenceDfDataSet_iloc(data, hparams, idx)
        IN  /\ data' = r.data
            /\ res' = [res EXCEPT ![wk] =
                         [Idle EXCEPT !.op = "iloc", !.idx = idx, !.status = r.status,
                                      !.x_rows = r.x_rows, !.y_rows = r.y_rows]]
            /\ UNCHANGED <<hparams, batch, last_step, outputs, val_end, plot>>

\* dataset[idx]
CallGetitem(wk) ==
    \E idx \in IdxRange :
        LET r == SequenceDfDataSet_getitem(data, hparams, idx)
        IN  /\ data' = r.data
            /\ res' = [res EXCEPT ![wk] =
                         [Idle EXCEPT !.op = "item", !.idx = idx, !.status = r.status,
                                      !.x = r.x, !.y = r.y]]
            /\ UNCHANGED <<hparams, batch, last_step, outputs, val_end, plot>>

\* In-process loading (num_workers = 0): one caller, every label column.
Init == InitDataset(LabelColumns)

Next == CallLen("w1") \/ CallIloc("w1") \/ CallGetitem("w1")

Spec == Init /\ [][Next]_vars

\* A pool of loader workers over one shared table.
InitWorkers == InitDataset({Ramp(n) : n \in 0..MaxRows})

NextWorkers == \E wk \in Workers : CallLen(wk) \/ CallIloc(wk) \/ CallGetitem(wk)

SpecWorkers == InitWorkers /\ [][NextWorkers]_vars

-----------------------------------------------------------------------------
(* Claims about the dataset adapter *)

Length == SequenceDfDataSet_len(data, hparams)

Span == hparams.window_length + hparams.target_length

ValidIdx(idx) == 0 <= idx /\ idx < Length

Returned(r) == r.op = "iloc" /\ r.status = "ok"

\* The table holds a non-zero label in the horizon rows of sample idx.
HorizonNonZero(idx) ==
    \E p \in (hparams.window_length + 1)..Span :
        idx + p \in 1..Len(data) /\ data[idx + p].energy # 0

\* C1: length() returns max(0, total_rows - window_length - target_length - 1),
\* so the value a consumer reads is never negative.
C1_LengthClampedAtZero ==
    \A wk \in Workers :
        res[wk].op = "len" =>
            /\ res[wk].len = Max(0, Len(data) - hparams.window_length
                                     - hparams.target_length - 1)
            /\ res[wk].len >= 0

\* C2: for every idx in [0, length()), the x_rows and y_rows that iloc(idx)
\* returns both have exactly window_length + target_length rows.
C2_SlicesNeverTruncated ==
    \A wk \in Workers :
        (Returned(res[wk]) /\ ValidIdx(res[wk].idx)) =>
            /\ Len(res[wk].x_rows) = Span
            /\ Len(res[wk].y_rows) = Span

C2_Witness ==
    /\ Returned(res["w1"])
    /\ res["w1"].idx = Length - 1
    /\ res["w1"].idx >= 1
    /\ hparams.window_length >= 1
    /\ hparams.target_length >= 1
    /\ Len(res["w1"].y_rows) = Span

ExampleLabels == <<10, 20, 30, 40, 50>>

\* C3: for every idx in [0, length()), y_rows are the label values of table
\* rows [idx+1, idx+window_length+target_length+1), in table order; with
\* window_length=2, target_length=1 and labels [10,20,30,40,50], length() is 1
\* and iloc(0) yields y labels [20,30,40].
C3_YRowsAreShiftedLabels ==
    \A wk \in Workers :
        /\ (Returned(res[wk]) /\ ValidIdx(res[wk].idx)) =>
              /\ Len(res[wk].y_rows) = Span
              /\ \A p \in 1..Span :
                    res[wk].y_rows[p].energy = data[res[wk].idx + 1 + p].energy
        /\ (data = Table(ExampleLabels) /\ hparams.window_length = 2
              /\ hparams.target_length = 1) =>
              /\ res[wk].op = "len" => res[wk].len = 1
              /\ (res[wk].op = "iloc" /\ res[wk].idx = 0) =>
                    /\ res[wk].status = "ok"
                    /\ [p \in 1..Len(res[wk].y_rows) |-> res[wk].y_rows[p].energy]
                          = <<20, 30, 40>>

C3_Witness ==
    /\ data = Table(ExampleLabels)
    /\ hparams.window_length = 2
    /\ hparams.target_length = 1
    /\ Returned(res["w1"])
    /\ res["w1"].idx = 0
    /\ Len(res["w1"].y_rows) = 3

\* C4: for every idx in [0, length()), every label cell of the returned
\* x_rows at local offset >= window_length is zero, whatever the table holds.
C4_HorizonLabelsZero ==
    \A wk \in Workers :
        /\ (Returned(res[wk]) /\ ValidIdx(res[wk].idx)) =>
              \A p \in (hparams.window_length + 1)..Len(res[wk].x_rows) :
                  res[wk].x_rows[p].energy = 0
        /\ (res[wk].op = "item" /\ res[wk].status = "ok" /\ ValidIdx(res[wk].idx)) =>
              \A p \in (hparams.window_length + 1)..Len(res[wk].x) :
                  res[wk].x[p][2] = 0

C4_Witness ==
    /\ Returned(res["w1"])
    /\ ValidIdx(res["w1"].idx)
    /\ hparams.window_length >= 1
    /\ hparams.target_length >= 2
    /\ \A p \in (hparams.window_length + 1)..Span :
          data[res["w1"].idx + p].energy # 0
    /\ Len(res["w1"].x_rows) = Span

SameCall(a, b) == a.op = b.op /\ a.idx = b.idx

\* C5: no call (successful or failing, from any worker, in any order)
\* changes a cell of the shared table, and two calls with the same idx give
\* equal results.
C5_TableNeverModified ==
    [][/\ data' = data
       /\ \A a, b \in Workers : SameCall(res'[a], res'[b]) => res'[a] = res'[b]]_vars

C5_Witness ==
    /\ Returned(res["w1"])
    /\ ValidIdx(res["w1"].idx)
    /\ hparams.target_length >= 1
    /\ HorizonNonZero(res["w1"].idx)
    /\ SameCall(res["w1"], res["w2"])
    /\ Len(res["w2"].x_rows) = Span

Raises(r) == r.status \notin {"ok", "none"}

\* C6: for every idx outside [0, length()), get(idx) raises and returns no
\* sample, so never a short or truncated pair.
C6_OutOfRangeRaises ==
    \A wk \in Workers :
        (res[wk].op \in {"iloc", "item"} /\ ~ValidIdx(res[wk].idx)) =>
            /\ Raises(res[wk])
            /\ res[wk].x_rows = <<>> /\ res[wk].y_rows = <<>>
            /\ res[wk].x = <<>> /\ res[wk].y = <<>>

\* C7 as stated: for every valid idx, a non-zero label in the horizon rows
\* of the table makes get(idx) fail with an assertion error.
C7_NonZeroHorizonRaises ==
    \A wk \in Workers :
        (res[wk].op \in {"iloc", "item"} /\ ValidIdx(res[wk].idx)
            /\ HorizonNonZero(res[wk].idx)) =>
            res[wk].status \in {"AssertionError:42", "AssertionError:43",
                                "AssertionError:49", "AssertionError:50"}

\* C7 as amended: the zero check runs on the copy after it was masked, so
\* for every valid idx it never fails, whatever labels the table holds in
\* the horizon rows: get(idx) returns a sample exactly when target_length >= 1
\* and otherwise fails on the non-empty-horizon assertion.
C7_ZeroCheckNeverFailsAfterMasking ==
    \A wk \in Workers :
        (res[wk].op \in {"iloc", "item"} /\ ValidIdx(res[wk].idx)) =>
            /\ res[wk].status # "AssertionError:50"
            /\ hparams.target_length >= 1 => res[wk].status = "ok"
            /\ hparams.target_length = 0 => res[wk].status = "AssertionError:49"

C7_Witness ==
    /\ res["w1"].op = "iloc"
    /\ ValidIdx(res["w1"].idx)
    /\ HorizonNonZero(res["w1"].idx)
    /\ hparams.target_length >= 1
    /\ res["w1"].status = "ok"
    /\ \A p \in (hparams.window_length + 1)..Span : res["w1"].x_rows[p].energy = 0

-----------------------------------------------------------------------------
(* LSTM_PL: the per-batch steps *)

BatchSizes == {1, 2}

\* A loss value: a finite mean num / den, or nan / inf.
Finite(num, den) == [kind |-> "finite", num |-> num, den |-> den]

NaN == [kind |-> "nan", num |-> 0, den |-> 1]

Inf == [kind |-> "inf", num |-> 0, den |-> 1]

\* Targets of a (B, T) batch: every cell distinct.
Targets(B, T) == [b \in 1..B |-> [t \in 1..T |-> 10 * t + b]]

\* y[:, w:] on a (B, T) tensor: every row from timestep w on.
DiscardContext_None(rows, w) == rows

DiscardContext(rows, w) == [b \in 1..Len(rows) |-> PySliceFrom(rows[b], w)]

RECURSIVE SumSqRow(_, _, _)
SumSqRow(a, b, t) ==
    IF t = 0 THEN 0
    ELSE (a[t] - b[t]) * (a[t] - b[t]) + SumSqRow(a, b, t - 1)

RECURSIVE SumSq(_, _, _)
SumSq(a, b, r) ==
    IF r = 0 THEN 0
    ELSE SumSqRow(a[r], b[r], Len(a[r])) + SumSq(a, b, r - 1)

RECURSIVE Numel(_, _)
Numel(a, r) == IF r = 0 THEN 0 ELSE Len(a[r]) + Numel(a, r - 1)

SameShape(a, b) ==
    Len(a) = Len(b) /\ \A r \in 1..Len(a) : Len(a[r]) = Len(b[r])

\* F.mse_loss(input, target): the mean of the squared differences over
\* every element; the mean of no element is nan.
MseLoss(input, target) ==
    IF ~SameShape(input, target) THEN [kind |-> "shape_error", num |-> 0, den |-> 1]
    ELSE IF Numel(input, Len(input)) = 0 THEN NaN
    ELSE Finite(SumSq(input, target, Len(input)), Numel(input, Len(input)))

StepLoss(b, hp) ==
    LET y == DiscardContext(b.y, hp.window_length)
        y_hat == DiscardContext(b.y_hat, hp.window_length)
    IN  MseLoss(y_hat, y)

LSTM_PL_training_step(b, hp) ==
    [key |-> "loss", log |-> "train_loss", loss |-> StepLoss(b, hp)]

LSTM_PL_validation_step(b, hp) ==
    [key |-> "val_loss", log |-> "val_loss", loss |-> StepLoss(b, hp)]

LSTM_PL_test_step(b, hp) == LSTM_PL_validation_step(b, hp)

ErrorRows(B, T) == [1..B -> SeqsOfLen({0, 1}, T)]

\* A batch (x, y) from the loader and the forward pass's prediction for it:
\* one value per input timestep, each off its target by 0 or 1.
InitStep ==
    /\ \E B \in BatchSizes, T \in 0..MaxT :
         \E err \in ErrorRows(B, T) :
            batch = [y |-> Targets(B, T),
                     y_hat |-> [b \in 1..B |-> [t \in 1..T |->
                                   Targets(B, T)[b][t] + err[b][t]]]]
    /\ \E w \in 0..MaxStepWindow :
          hparams = [window_length |-> w, target_length |-> 1, vis_i |-> NoVis]
    /\ data = <<>>
    /\ res = [wk \in Workers |-> Idle]
    /\ last_step = NoStep
    /\ outputs = <<>>
    /\ val_end = NoValEnd
    /\ plot = NoPlot

Step(kind, r) ==
    /\ last_step' = [kind |-> kind, key |-> r.key, loss |-> r.loss]
    /\ UNCHANGED <<data, hparams, res, batch, outputs, val_end, plot>>

TrainingStep == Step("training", LSTM_PL_training_step(batch, hparams))

ValidationStep == Step("validation", LSTM_PL_validation_step(batch, hparams))

TestStep == Step("test", LSTM_PL_test_step(batch, hparams))

NextStep == TrainingStep \/ ValidationStep \/ TestStep

SpecStep == InitStep /\ [][NextStep]_vars

BatchB == Len(batch.y)

BatchT == Len(batch.y[1])

\* The timesteps (1-based positions of 0-based timesteps w .. T-1) that the
\* claim says are scored.
Scored == {t \in 1..BatchT : hparams.window_length <= t - 1}

RECURSIVE SumOver(_, _)
SumOver(S, f) ==
    IF S = {} THEN 0
    ELSE LET t == CHOOSE u \in S : TRUE IN f[t] + SumOver(S \ {t}, f)

ScoredError ==
    SumOver(1..BatchB,
            [b \in 1..BatchB |->
               SumOver(Scored,
                       [t \in Scored |->
                          (batch.y_hat[b][t] - batch.y[b][t])
                              * (batch.y_hat[b][t] - batch.y[b][t])])])

\* C8: in training_step, validation_step and test_step the loss of a batch
\* with T timesteps is the mean squared error over exactly the timesteps
\* window_length <= t < T of prediction and target, position by position;
\* with window_length = 3 and T = 5 exactly 2 timesteps contribute.
C8_LossOverHorizonOnly ==
    last_step.kind # "none" =>
        /\ Scored # {} =>
              last_step.loss = Finite(ScoredError, BatchB * Cardinality(Scored))
        /\ Scored = {} => last_step.loss = NaN
        /\ (hparams.window_length = 3 /\ BatchT = 5) =>
              last_step.loss.den = 2 * BatchB

C8_Witness ==
    /\ last_step.kind = "test"
    /\ hparams.window_length = 3
    /\ BatchT = 5
    /\ BatchB = 2
    /\ \E t \in 1..3 : batch.y_hat[2][t] # batch.y[2][t]
    /\ \E t \in 4..5 : batch.y_hat[1][t] # batch.y[1][t]
    /\ last_step.loss.den = 4

-----------------------------------------------------------------------------
(* plot_from_loader and LSTM_PL.validation_end *)

\* len(dataset): Python raises ValueError when __len__ returns a negative.
LenBuiltin(d, hp) ==
    LET n == SequenceDfDataSet_len(d, hp)
    IN  [ok |-> n >= 0, val |-> n]

\* One pass of plot_from_loader's loop body for sample i, given what
\* dset_test.iloc(i) (r) and dset_test[i] (g) gave: the outcome and whether
\* the loop goes on.
PlotBody(r, g, passed) ==
    IF r.status # "ok" THEN [status |-> r.status, data |-> r.data, indices |-> passed]
    ELSE IF g.status # "ok" THEN [status |-> g.status, data |-> g.data, indices |-> passed]
    \* y_hat has one value per row of x; y_hat_rows[label] = y_hat
    ELSE IF Len(g.x) # Len(r.y_rows)
         THEN [status |-> "ValueError:274", data |-> g.data, indices |-> passed]
    ELSE [status |-> "ok", data |-> g.data, indices |-> passed]

\* for i in range(i, stop): the indices passed to the dataset so far are
\* `seen`.
RECURSIVE PlotLoop(_, _, _, _, _)
PlotLoop(d, hp, i, stop, seen) ==
    IF i >= stop THEN [status |-> "ok", data |-> d, indices |-> seen]
    ELSE Only({IF b.status # "ok" THEN b
               ELSE PlotLoop(b.data, hp, i + 1, stop, b.indices) :
                 b \in UNION {{PlotBody(r, g, Append(seen, i)) :
                                  g \in {SequenceDfDataSet_getitem(r.data, hp, i)}} :
                                r \in {SequenceDfDataSet_iloc(d, hp, i)}}})

\* plot_from_loader(loader, model, vis_i, n)
plot_from_loader(d, hp, vis_i, n) ==
    LET L == LenBuiltin(d, hp)
    IN  IF ~L.ok THEN [status |-> "ValueError:260", data |-> d, indices |-> <<>>]
        ELSE Only({IF loop.status # "ok" THEN loop
                   \* pd.concat of an empty list
                   ELSE IF n <= 0 THEN [loop EXCEPT !.status = "ValueError:279"]
                   ELSE loop :
                     loop \in {PlotLoop(d, hp, Min(vis_i, L.val),
                                        Min(vis_i, L.val) + n, <<>>)}})

PlotRecord(p, vis_i, n) ==
    [status |-> p.status, vis_i |-> vis_i, n |-> n, indices |-> p.indices]

RatAdd(a, b) == [num |-> a.num * b.den + b.num * a.den, den |-> a.den * b.den]

RECURSIVE RatSum(_, _)
RatSum(losses, k) ==
    IF k = 0 THEN [num |-> 0, den |-> 1]
    ELSE RatAdd(RatSum(losses, k - 1), losses[k])

\* torch.stack(losses).mean() of a non-empty list
MeanLoss(losses) ==
    IF \E k \in 1..Len(losses) : losses[k].kind = "nan" THEN NaN
    ELSE IF \E k \in 1..Len(losses) : losses[k].kind = "inf" THEN Inf
    ELSE LET s == RatSum(losses, Len(losses))
         IN  Finite(s.num, s.den * Len(losses))

\* torch.isfinite
IsFinite(loss) == loss.kind = "finite"

ValLosses(outs) == [k \in 1..Len(outs) |-> outs[k].loss]

ValEndRaised(status, d, p) ==
    [status |-> status, data |-> d, plotted |-> FALSE, avg |-> NaN, plot |-> p]

\* The aggregation of validation_end, lines 146-155.
Aggregate(outs, d, plotted, p) ==
    IF outs = <<>> THEN ValEndRaised("RuntimeError:146", d, p)
    ELSE
    LET avg_loss == MeanLoss(ValLosses(outs))
    IN  IF ~IsFinite(avg_loss) THEN [ValEndRaised("AssertionError:154", d, p)
                                        EXCEPT !.plotted = plotted]
        ELSE [status |-> "ok", data |-> d, plotted |-> plotted,
              avg |-> avg_loss, plot |-> p]

\* validation_end(outputs): `loader` and the clamped vis_i are bound only
\* under the first if; the plotting calls that use them are not under it.
LSTM_PL_validation_end(d, hp, outs, cur) ==
    LET v == hp.vis_i.val
        bound == v > 0
        L == LenBuiltin(d, hp)
    IN  IF bound /\ ~L.ok THEN ValEndRaised("ValueError:136", d, cur)
        ELSE IF ~bound
             THEN ValEndRaised(IF hp.vis_i.isstr THEN "UnboundLocalError:138"
                                                 ELSE "UnboundLocalError:141", d, cur)
        ELSE Only({IF p.status # "ok"
                   THEN ValEndRaised(p.status, p.data, PlotRecord(p, Min(v, L.val), 1))
                   ELSE Aggregate(outs, p.data, TRUE, PlotRecord(p, Min(v, L.val), 1)) :
                     p \in {plot_from_loader(d, hp, Min(v, L.val), 1)}})

LSTM_PL_test_end(d, hp, outs, cur) == LSTM_PL_validation_end(d, hp, outs, cur)

LossValues == {Finite(0, 1), Finite(3, 1), NaN, Inf}

VisOptions ==
    {[isstr |-> FALSE, val |-> v] : v \in {-1, 0, 2, DefaultVisI}}
        \cup {[isstr |-> TRUE, val |-> 2]}

\* The validation table and the hyperparameters of a run that forecasts at
\* least one step.
InitVal ==
    /\ \E n \in 0..MaxRows : data = Table(Ramp(n))
    /\ \E w \in 0..MaxWindow, t \in 1..MaxTarget, vis \in VisOptions :
          hparams = [window_length |-> w, target_length |-> t, vis_i |-> vis]
    /\ res = [wk \in Workers |-> Idle]
    /\ batch = NoBatch
    /\ last_step = NoStep
    /\ outputs = <<>>
    /\ val_end = NoValEnd
    /\ plot = NoPlot

\* The trainer collects what validation_step / test_step returned for a batch.
CollectOutput ==
    /\ val_end.status = "none"
    /\ Len(outputs) < MaxOutputs
    /\ \E loss \in LossValues :
          outputs' = Append(outputs, [key |-> "val_loss", loss |-> loss])
    /\ UNCHANGED <<data, hparams, res, batch, last_step, val_end, plot>>

End(by, r) ==
    /\ val_end.status = "none"
    /\ val_end' = [status |-> r.status, by |-> by, plotted |-> r.plotted, avg |-> r.avg]
    /\ data' = r.data
    /\ plot' = r.plot
    /\ UNCHANGED <<hparams, res, batch, last_step, outputs>>

ValidationEnd == End("validation_end", LSTM_PL_validation_end(data, hparams, outputs, plot))

TestEnd == End("test_end", LSTM_PL_test_end(data, hparams, outputs, plot))

\* The trainer starts the next validation run with no outputs.
StartValidation ==
    /\ val_end.status # "none"
    /\ val_end' = NoValEnd
    /\ outputs' = <<>>
    /\ plot' = NoPlot
    /\ UNCHANGED <<data, hparams, res, batch, last_step>>

\* plot_from_loader called directly (outside a validation run).
PlotFromLoader ==
    /\ val_end.status = "none"
    /\ outputs = <<>>
    /\ \E vis_i \in {1, 2, DefaultVisI}, n \in 1..MaxPlotN :
          LET p == plot_from_loader(data, hparams, vis_i, n)
          IN  /\ plot' = PlotRecord(p, vis_i, n)
              /\ data' = p.data
    /\ UNCHANGED <<hparams, res, batch, last_step, outputs, val_end>>

NextVal ==
    CollectOutput \/ ValidationEnd \/ TestEnd \/ StartValidation \/ PlotFromLoader

SpecVal == InitVal /\ [][NextVal]_vars

\* C9: for every vis_i and every non-empty list of outputs, validation_end
\* returns the mean validation loss when it is finite, fails only when the
\* mean is not finite, plots exactly when vis_i > 0, and with vis_i <= 0
\* completes and returns the aggregate without plotting.
C9_ValidationEndGuardsPlot ==
    (val_end.status # "none" /\ outputs # <<>>) =>
        LET mean == MeanLoss(ValLosses(outputs))
        IN  /\ IsFinite(mean) => (val_end.status = "ok" /\ val_end.avg = mean)
            /\ val_end.status # "ok" => ~IsFinite(mean)
            /\ val_end.plotted <=> hparams.vis_i.val > 0
            /\ (hparams.vis_i.val <= 0 /\ IsFinite(mean)) =>
                  (val_end.status = "ok" /\ ~val_end.plotted)

\* C10: for vis_i > 0, n >= 1 and length() >= 1, every sample index that
\* plot_from_loader passes to the dataset lies in [0, length()).
C10_PlotIndicesInRange ==
    (plot.status # "none" /\ plot.vis_i > 0 /\ plot.n >= 1 /\ Length >= 1) =>
        \A p \in 1..Len(plot.indices) :
            0 <= plot.indices[p] /\ plot.indices[p] < Length

====
